---- MODULE Spec2Model ----
(***************************************************************************)
(* SvExQuadsToNurbsNode of nodes/surface/quads_to_nurbs.py: make_surface   *)
(* (one quad to a 4x4 control grid and weight grid) and process (the batch *)
(* loop over meshes, the edge-weight pre-pass and the loop over faces).    *)
(*                                                                         *)
(* Numbers.  Coordinates are exact integers counted in thirds of a length  *)
(* unit (the point (1,0,0) is <<3,0,0>>), so that the division of the      *)
(* tangent weights by 3.0 is exact on points with whole-unit coordinates.  *)
(* A tangent weight after line 91 is the rational [num, den].  Vertex,     *)
(* edge and face weights are whole numbers.  Python lists are sequences;   *)
(* a Python index i is position i+1.                                       *)
(***************************************************************************)
EXTENDS Integers, Sequences, FiniteSets, TLC

VARIABLES
    pc,                 \* position inside process
    linked,             \* any(socket.is_linked for socket in self.outputs)
    vertices,           \* vertex positions of the mesh (shared by the batch's meshes)
    normals,            \* vertex.normal of bm.verts, as the mesh collaborator returns them
    edges_in,           \* the Edges input of the mesh ("absent" = empty list)
    faces_s,            \* the Faces input: one face list per mesh of the batch
    degree_u, degree_v, \* the per-face degree lists (padded in place by fullList)
    vertex_weights, edge_weights, face_weights, tangent_weights,
    mesh_no,            \* 1-based number of the mesh being processed (0 before the first)
    edges,              \* local edges of the current mesh (input or derived)
    vert_planes,        \* tangent planes of the current mesh
    edge_weights_dict,  \* the edge-weight table of the current mesh
    e,                  \* number of edges already inserted in the table
    i,                  \* Python index of the next face of the current mesh
    surface_out, control_points_out, weights_out,
    log,                \* self.info records: the face index of each message
    sockets,            \* the three output sockets: << >> until sv_set, then << data >>
    call,               \* argument objects of the last make_surface call, after it returned
    p_args,             \* arguments of a stand-alone make_surface call
    p_ret               \* its return value, NoRet before the call

vars == << pc, linked, vertices, normals, edges_in, faces_s, degree_u, degree_v,
           vertex_weights, edge_weights, face_weights, tangent_weights, mesh_no,
           edges, vert_planes, edge_weights_dict, e, i, surface_out,
           control_points_out, weights_out, log, sockets, call, p_args, p_ret >>

-----------------------------------------------------------------------------
(* Bounds of the model *)
MaxFaces == 2       \* faces in the first mesh's face list
MaxMeshes == 2      \* meshes in one batch

(* Program constants *)
TangentDivisor == 3 \* w/3.0
QuadSize == 4       \* len(face) != 4

-----------------------------------------------------------------------------
(* Sequences and vectors *)

At(l, k) == l[k + 1]

Min2(a, b) == IF a < b THEN a ELSE b

VAdd(a, b) == << a[1] + b[1], a[2] + b[2], a[3] + b[3] >>
VSub(a, b) == << a[1] - b[1], a[2] - b[2], a[3] - b[3] >>
VMul(a, k) == << a[1] * k, a[2] * k, a[3] * k >>
VDot(a, b) == a[1] * b[1] + a[2] * b[2] + a[3] * b[3]

\* vector * rational
VMulQ(a, q) == << (a[1] * q.num) \div q.den, (a[2] * q.num) \div q.den,
                  (a[3] * q.num) \div q.den >>

-----------------------------------------------------------------------------
(* Collaborators of the sverchok library *)

\* fullList(l, count): extend l in place to count entries by repeating the last
fullList(l, count) ==
    IF Len(l) >= count THEN l
    ELSE [k \in 1..count |-> IF k <= Len(l) THEN l[k] ELSE l[Len(l)]]

\* PlaneEquation.from_normal_and_point: a x + b y + c z + d = 0
from_normal_and_point(normal, point) ==
    [a |-> normal[1], b |-> normal[2], c |-> normal[3], d |-> 0 - VDot(normal, point)]

\* PlaneEquation.projection_of_point: the orthogonal projection on the plane
projection_of_point(plane, point) ==
    LET n == << plane.a, plane.b, plane.c >>
        s == VDot(n, point) + plane.d
        nn == VDot(n, n)
    IN  << point[1] - (s * n[1]) \div nn, point[2] - (s * n[2]) \div nn,
           point[3] - (s * n[3]) \div nn >>

\* the cyclic sides of one face, as polygons_to_edges walks them
FaceSides(face) ==
    [k \in 1..Len(face) |-> << face[k], face[IF k = Len(face) THEN 1 ELSE k + 1] >>]

SortedPair(p) == IF p[1] <= p[2] THEN p ELSE << p[2], p[1] >>

RECURSIVE AppendUnique(_, _, _)
AppendUnique(out, sides, k) ==
    IF k > Len(sides) THEN out
    ELSE AppendUnique(
            IF \E x \in 1..Len(out) : SortedPair(out[x]) = SortedPair(sides[k])
            THEN out ELSE Append(out, sides[k]),
            sides, k + 1)

\* polygons_to_edges([faces], True)[0]: every side of every face, once per unordered pair
RECURSIVE polygons_to_edges(_, _, _)
polygons_to_edges(faces, out, k) ==
    IF k > Len(faces) THEN out
    ELSE polygons_to_edges(faces, AppendUnique(out, FaceSides(faces[k]), 1), k + 1)

-----------------------------------------------------------------------------
(* make_surface *)

\* mutant: the tangent weight used as given
DivideTangent_None(w) == [num |-> w, den |-> 1]

\* tangent_weights = [w/3.0 for w in tangent_weights]
DivideTangent(w) == [num |-> w, den |-> TangentDivisor]

\* mutant: the displacement added to the far corner
mk_edge_point_FromFar(vs, tw, a, b) ==
    VAdd(VMulQ(VSub(At(vs, b), At(vs, a)), At(tw, a)), At(vs, b))

mk_edge_point(vs, tw, a, b) ==
    VAdd(VMulQ(VSub(At(vs, b), At(vs, a)), At(tw, a)), At(vs, a))

mk_face_point(vs, tw, planes, m, a, b, c) ==
    LET dv1 == VMulQ(VSub(At(vs, b), At(vs, a)), At(tw, a))
        dv2 == VMulQ(VSub(At(vs, c), At(vs, a)), At(tw, a))
    IN  projection_of_point(At(planes, a),
            VAdd(VAdd(At(vs, a), VMul(dv1, m)), VMul(dv2, m)))

\* the eight edge points and the four face points
GridPoints(vs, tw, planes, m) ==
    [e01 |-> projection_of_point(At(planes, 0), mk_edge_point(vs, tw, 0, 1)),
     e02 |-> projection_of_point(At(planes, 1), mk_edge_point(vs, tw, 1, 0)),
     e11 |-> projection_of_point(At(planes, 0), mk_edge_point(vs, tw, 0, 3)),
     e21 |-> projection_of_point(At(planes, 1), mk_edge_point(vs, tw, 1, 2)),
     f1 |-> mk_face_point(vs, tw, planes, m, 0, 1, 3),
     f2 |-> mk_face_point(vs, tw, planes, m, 1, 0, 2),
     e12 |-> projection_of_point(At(planes, 3), mk_edge_point(vs, tw, 3, 0)),
     e31 |-> projection_of_point(At(planes, 3), mk_edge_point(vs, tw, 3, 2)),
     e32 |-> projection_of_point(At(planes, 2), mk_edge_point(vs, tw, 2, 3)),
     e22 |-> projection_of_point(At(planes, 2), mk_edge_point(vs, tw, 2, 1)),
     f3 |-> mk_face_point(vs, tw, planes, m, 3, 0, 2),
     f4 |-> mk_face_point(vs, tw, planes, m, 2, 3, 1)]

\* mutant: the two corners of the last row exchanged
ControlGrid_CornersSwapped(vs, g) ==
    << At(vs, 0), g.e01, g.e02, At(vs, 1),
       g.e11, g.f1, g.f2, g.e21,
       g.e12, g.f3, g.f4, g.e22,
       At(vs, 2), g.e31, g.e32, At(vs, 3) >>

\* mutant: the two edge points of the first row exchanged
ControlGrid_EdgeSwapped(vs, g) ==
    << At(vs, 0), g.e02, g.e01, At(vs, 1),
       g.e11, g.f1, g.f2, g.e21,
       g.e12, g.f3, g.f4, g.e22,
       At(vs, 3), g.e31, g.e32, At(vs, 2) >>

\* control_points = [...]
ControlGrid(vs, g) ==
    << At(vs, 0), g.e01, g.e02, At(vs, 1),
       g.e11, g.f1, g.f2, g.e21,
       g.e12, g.f3, g.f4, g.e22,
       At(vs, 3), g.e31, g.e32, At(vs, 2) >>

\* the four keys looked up in the edge-weight table, in the order of the lookups
EdgeKeys(face) ==
    << << At(face, 0), At(face, 1) >>, << At(face, 0), At(face, 3) >>,
       << At(face, 1), At(face, 2) >>, << At(face, 2), At(face, 3) >> >>

\* the lookups raise KeyError
LookupFault(face, dict) == \E k \in 1..4 : EdgeKeys(face)[k] \notin DOMAIN dict

\* mutant: the weights of the left and right sides exchanged
WeightGrid_SidesSwapped(face, vert_weights, face_weight, dict) ==
    LET e0w == dict[EdgeKeys(face)[1]]
        e1w == dict[EdgeKeys(face)[2]]
        e2w == dict[EdgeKeys(face)[3]]
        e3w == dict[EdgeKeys(face)[4]]
    IN  << At(vert_weights, 0), e0w, e0w, At(vert_weights, 1),
           e2w, face_weight, face_weight, e1w,
           e2w, face_weight, face_weight, e1w,
           At(vert_weights, 3), e3w, e3w, At(vert_weights, 2) >>

\* weights = [...]
WeightGrid(face, vert_weights, face_weight, dict) ==
    LET e0w == dict[EdgeKeys(face)[1]]
        e1w == dict[EdgeKeys(face)[2]]
        e2w == dict[EdgeKeys(face)[3]]
        e3w == dict[EdgeKeys(face)[4]]
    IN  << At(vert_weights, 0), e0w, e0w, At(vert_weights, 1),
           e1w, face_weight, face_weight, e2w,
           e1w, face_weight, face_weight, e2w,
           At(vert_weights, 3), e3w, e3w, At(vert_weights, 2) >>

\* mutant: the tangent weights divided in the list that was handed in
ArgsAfter_InPlace(a) ==
    [a EXCEPT !.tangent_weights =
        [k \in 1..Len(a.tangent_weights) |-> a.tangent_weights[k] \div TangentDivisor]]

\* what the call leaves in the argument objects it was handed: lines 91 and 92
\* bind the names to new lists, nothing is written through a parameter
ArgsAfter(a) == a

make_surface(a) ==
    LET tw == [k \in 1..Len(a.tangent_weights) |-> DivideTangent(a.tangent_weights[k])]
        control_points == ControlGrid(a.vertices,
                              GridPoints(a.vertices, tw, a.planes, a.face_weight))
    IN  IF LookupFault(a.face, a.edge_weights_dict)
        THEN [fault |-> TRUE, args |-> ArgsAfter(a)]
        ELSE LET weights == WeightGrid(a.face, a.vert_weights, a.face_weight,
                                       a.edge_weights_dict)
             IN  [fault |-> FALSE, args |-> ArgsAfter(a),
                  surface |-> [degree_u |-> a.degree_u, degree_v |-> a.degree_v,
                               ctrlpts_size_u |-> 4, ctrlpts_size_v |-> 4,
                               ctrlpts |-> control_points, weights |-> weights],
                  control_points |-> control_points,
                  weights |-> weights]

-----------------------------------------------------------------------------
(* Inputs *)

Q1 == << 0, 1, 4, 3 >>
Q2 == << 4, 1, 2, 5 >>          \* shares the side {1,4} with Q1, walked the other way
Tri == << 0, 1, 4 >>
Pent == << 0, 1, 2, 5, 3 >>

FaceChoices == { Q1, Q2, Tri }

SeqsUpTo(S, n) == UNION { [1..k -> S] : k \in 1..n }

\* the face list of the first mesh, and the face lists of the meshes after it
FaceLists == SeqsUpTo(FaceChoices, MaxFaces)
LaterFaceLists == { << Q2 >>, << Pent, Q1 >> }
Batches ==
    { << f >> \o t : f \in FaceLists,
                     t \in {<< >>} \cup SeqsUpTo(LaterFaceLists, MaxMeshes - 1) }

EdgesQ1 == << <<0, 1>>, <<1, 4>>, <<4, 3>>, <<3, 0>> >>
EdgesAll == EdgesQ1 \o << <<1, 2>>, <<2, 5>>, <<5, 4>>, <<4, 1>> >>
EdgeInputs == { << >>, EdgesQ1, EdgesAll }

Profiles ==
    { [vw |-> << 1, 2, 3, 4, 5, 6 >>, ew |-> << 11, 12, 13, 14, 15, 16, 17, 18 >>,
       fw |-> << 1, 2 >>, tw |-> << 3, 1, 0, 3, 1, 2 >>, du |-> << 3, 2 >>, dv |-> << 2 >>],
      [vw |-> << 7 >>, ew |-> << 11, 12 >>,
       fw |-> << 2 >>, tw |-> << 3 >>, du |-> << 3 >>, dv |-> << 3, 2, 3 >>],
      [vw |-> << 1, 2, 3 >>, ew |-> << 15 >>,
       fw |-> << 0, 1, 2 >>, tw |-> << 0, 1 >>, du |-> << 2, 3, 2 >>, dv |-> << 2, 3 >>] }

AxisX == << 1, 0, 0 >>
AxisY == << 0, 1, 0 >>
AxisZ == << 0, 0, 1 >>

Geometries ==
    { [vs |-> << <<0,0,0>>, <<3,0,0>>, <<6,0,0>>, <<0,3,0>>, <<3,3,0>>, <<6,3,0>> >>,
       ns |-> << AxisZ, AxisZ, AxisZ, AxisZ, AxisZ, AxisZ >>],
      [vs |-> << <<0,0,0>>, <<3,0,3>>, <<6,0,0>>, <<0,3,3>>, <<3,3,6>>, <<6,3,3>> >>,
       ns |-> << AxisZ, AxisX, << 0, 0, -1 >>, AxisY, AxisZ, AxisX >>] }

NoArgs == [face |-> << >>]
NoRet == [none |-> TRUE]

Init ==
    /\ pc = "start"
    /\ linked \in BOOLEAN
    /\ \E g \in Geometries : vertices = g.vs /\ normals = g.ns
    /\ edges_in \in EdgeInputs
    /\ faces_s \in Batches
    /\ \E p \in Profiles :
          /\ degree_u = p.du /\ degree_v = p.dv
          /\ vertex_weights = p.vw /\ edge_weights = p.ew
          /\ face_weights = p.fw /\ tangent_weights = p.tw
    /\ mesh_no = 0
    /\ edges = << >>
    /\ vert_planes = << >>
    /\ edge_weights_dict = << >>
    /\ e = 0
    /\ i = 0
    /\ surface_out = << >>
    /\ control_points_out = << >>
    /\ weights_out = << >>
    /\ log = << >>
    /\ sockets = [Surfaces |-> << >>, ControlPoints |-> << >>, Weights |-> << >>]
    /\ call = NoArgs
    /\ p_args = NoArgs
    /\ p_ret = NoRet

-----------------------------------------------------------------------------
(* process *)

inputs == << linked, vertices, normals, edges_in >>
lists == << degree_u, degree_v, vertex_weights, edge_weights, face_weights,
            tangent_weights >>
outs == << surface_out, control_points_out, weights_out >>
patch == << p_args, p_ret >>

faces == faces_s[mesh_no]

\* if not any(socket.is_linked for socket in self.outputs): return
NotLinked ==
    /\ pc = "start" /\ ~linked
    /\ pc' = "returned"
    /\ UNCHANGED << inputs, faces_s, lists, mesh_no, edges, vert_planes,
                    edge_weights_dict, e, i, outs, log, sockets, call, patch >>

\* the sv_get calls and the empty output lists
ReadInputs ==
    /\ pc = "start" /\ linked
    /\ pc' = "mesh"
    /\ UNCHANGED << inputs, faces_s, lists, mesh_no, edges, vert_planes,
                    edge_weights_dict, e, i, outs, log, sockets, call, patch >>

\* mutant: the Edges input used as it is
MeshEdges_Input(es, fs) == es

\* edges of the mesh: the input, or the sides of the faces when the input is empty
MeshEdges(es, fs) == IF es = << >> THEN polygons_to_edges(fs, << >>, 1) ELSE es

\* one turn of the loop over the batch, up to the empty edge-weight table
BeginMesh ==
    /\ pc = "mesh" /\ mesh_no < Len(faces_s)
    /\ LET fs == faces_s[mesh_no + 1]
           es == MeshEdges(edges_in, fs)
       IN  /\ degree_u' = fullList(degree_u, Len(fs))
           /\ degree_v' = fullList(degree_v, Len(fs))
           /\ edges' = es
           /\ vertex_weights' = fullList(vertex_weights, Len(vertices))
           /\ tangent_weights' = fullList(tangent_weights, Len(vertices))
           /\ edge_weights' = fullList(edge_weights, Len(es))
           /\ face_weights' = fullList(face_weights, Len(fs))
    /\ vert_planes' = [k \in 1..Min2(Len(normals), Len(vertices)) |->
                          from_normal_and_point(normals[k], vertices[k])]
    /\ edge_weights_dict' = << >>
    /\ mesh_no' = mesh_no + 1
    /\ e' = 0
    /\ pc' = "edges"
    /\ UNCHANGED << inputs, faces_s, i, outs, log, sockets, call, patch >>

\* mutant: the reversed key written only when it is new
InsertBoth_KeepReverse(dict, edge, w) ==
    LET ij == << edge[1], edge[2] >>
        ji == << edge[2], edge[1] >>
    IN  [k \in DOMAIN dict \cup {ij, ji} |->
            IF k = ij \/ k \notin DOMAIN dict THEN w ELSE dict[k]]

\* edge_weights_dict[(i, j)] = edge_weight; edge_weights_dict[(j, i)] = edge_weight
InsertBoth(dict, edge, w) ==
    LET ij == << edge[1], edge[2] >>
        ji == << edge[2], edge[1] >>
    IN  [k \in DOMAIN dict \cup {ij, ji} |-> IF k \in {ij, ji} THEN w ELSE dict[k]]

\* one turn of: for (i, j), edge_weight in zip(edges, edge_weights)
InsertEdge ==
    /\ pc = "edges" /\ e < Min2(Len(edges), Len(edge_weights))
    /\ edge_weights_dict' = InsertBoth(edge_weights_dict, At(edges, e), At(edge_weights, e))
    /\ e' = e + 1
    /\ UNCHANGED << pc, inputs, faces_s, lists, mesh_no, edges, vert_planes, i, outs,
                    log, sockets, call, patch >>

EdgesDone ==
    /\ pc = "edges" /\ e = Min2(Len(edges), Len(edge_weights))
    /\ pc' = "faces"
    /\ i' = 0
    /\ UNCHANGED << inputs, faces_s, lists, mesh_no, edges, vert_planes,
                    edge_weights_dict, e, outs, log, sockets, call, patch >>

\* length of zip(faces, degree_u, degree_v, face_weights)
ZipLen == Min2(Min2(Len(faces), Len(degree_u)), Min2(Len(degree_v), Len(face_weights)))

\* if len(face) != 4
NotQuad(face) == Len(face) # QuadSize

\* mutant: break in place of continue
SkipFace_Break ==
    /\ pc = "faces" /\ i < ZipLen
    /\ NotQuad(At(faces, i))
    /\ log' = Append(log, i)
    /\ i' = ZipLen
    /\ UNCHANGED << pc, inputs, faces_s, lists, mesh_no, edges, vert_planes,
                    edge_weights_dict, e, outs, sockets, call, patch >>

\* self.info("Face #%s is not a Quad, skip it", i); continue
SkipFace ==
    /\ pc = "faces" /\ i < ZipLen
    /\ NotQuad(At(faces, i))
    /\ log' = Append(log, i)
    /\ i' = i + 1
    /\ UNCHANGED << pc, inputs, faces_s, lists, mesh_no, edges, vert_planes,
                    edge_weights_dict, e, outs, sockets, call, patch >>

\* the arguments of the make_surface call for the face at Python index k
FaceArgs(k) ==
    LET face == At(faces, k)
    IN  [face |-> face,
         degree_u |-> At(degree_u, k),
         degree_v |-> At(degree_v, k),
         vertices |-> [x \in 1..Len(face) |-> At(vertices, face[x])],
         planes |-> [x \in 1..Len(face) |-> At(vert_planes, face[x])],
         vert_weights |-> [x \in 1..Len(face) |-> At(vertex_weights, face[x])],
         tangent_weights |-> [x \in 1..Len(face) |-> At(tangent_weights, face[x])],
         face_weight |-> At(face_weights, k),
         edge_weights_dict |-> edge_weights_dict]

\* a quad whose four lookups succeed: the three appends
BuildFace ==
    /\ pc = "faces" /\ i < ZipLen
    /\ ~NotQuad(At(faces, i))
    /\ LET r == make_surface(FaceArgs(i))
       IN  /\ ~r.fault
           /\ surface_out' = Append(surface_out, r.surface)
           /\ control_points_out' = Append(control_points_out, r.control_points)
           /\ weights_out' = Append(weights_out, r.weights)
           /\ call' = r.args
           /\ edge_weights_dict' = r.args.edge_weights_dict
    /\ i' = i + 1
    /\ UNCHANGED << pc, inputs, faces_s, lists, mesh_no, edges, vert_planes, e,
                    log, sockets, patch >>

\* mutant: the KeyError caught and the quad skipped
FaceFault_Recover ==
    /\ pc = "faces" /\ i < ZipLen
    /\ ~NotQuad(At(faces, i))
    /\ LET r == make_surface(FaceArgs(i))
       IN  /\ r.fault
           /\ call' = r.args
           /\ edge_weights_dict' = r.args.edge_weights_dict
    /\ i' = i + 1
    /\ UNCHANGED << pc, inputs, faces_s, lists, mesh_no, edges, vert_planes, e, outs,
                    log, sockets, patch >>

\* a quad with a side that is no key of the table: KeyError leaves process
FaceFault ==
    /\ pc = "faces" /\ i < ZipLen
    /\ ~NotQuad(At(faces, i))
    /\ LET r == make_surface(FaceArgs(i))
       IN  /\ r.fault
           /\ call' = r.args
           /\ edge_weights_dict' = r.args.edge_weights_dict
    /\ pc' = "fault"
    /\ UNCHANGED << inputs, faces_s, lists, mesh_no, edges, vert_planes, e, i, outs,
                    log, sockets, patch >>

MeshDone ==
    /\ pc = "faces" /\ i = ZipLen
    /\ pc' = "mesh"
    /\ UNCHANGED << inputs, faces_s, lists, mesh_no, edges, vert_planes,
                    edge_weights_dict, e, i, outs, log, sockets, call, patch >>

\* the three sv_set calls after the loop
SetOutputs ==
    /\ pc = "mesh" /\ mesh_no = Len(faces_s)
    /\ sockets' = [Surfaces |-> << surface_out >>,
                   ControlPoints |-> << control_points_out >>,
                   Weights |-> << weights_out >>]
    /\ pc' = "done"
    /\ UNCHANGED << inputs, faces_s, lists, mesh_no, edges, vert_planes,
                    edge_weights_dict, e, i, outs, log, call, patch >>

Next ==
    \/ NotLinked
    \/ ReadInputs
    \/ BeginMesh
    \/ InsertEdge
    \/ EdgesDone
    \/ SkipFace
    \/ BuildFace
    \/ FaceFault
    \/ MeshDone
    \/ SetOutputs

Spec == Init /\ [][Next]_vars

-----------------------------------------------------------------------------
(* make_surface on its own: one call on one quad *)

LocalQuad == << 0, 1, 2, 3 >>

\* the table the pre-pass builds from the quad's four sides and four weights
QuadTable(ew) ==
    InsertBoth(InsertBoth(InsertBoth(InsertBoth(<< >>, << 0, 1 >>, ew[1]),
        << 1, 2 >>, ew[2]), << 2, 3 >>, ew[3]), << 3, 0 >>, ew[4])

Axes == { AxisX, AxisY, AxisZ }
TangentInputs == { 0, 1, 3 }

PatchWeights ==
    { [vw |-> << 1, 1, 1, 1 >>, ew |-> << 1, 1, 1, 1 >>, fw |-> 1, du |-> 3, dv |-> 3],
      [vw |-> << 1, 2, 3, 4 >>, ew |-> << 11, 12, 13, 14 >>, fw |-> 2, du |-> 2, dv |-> 3] }

PatchCorners ==
    { << << 0, 0, 0 >>, << 3, 0, 0 >>, c2, c3 >> :
        c2 \in { << 3, 3, 0 >>, << 6, 3, 3 >> }, c3 \in { << 0, 3, 0 >>, << 0, 6, -3 >> } }

PatchArgs(vs, ns, tw, w) ==
    [face |-> LocalQuad, degree_u |-> w.du, degree_v |-> w.dv,
     vertices |-> vs,
     planes |-> [k \in 1..4 |-> from_normal_and_point(ns[k], vs[k])],
     vert_weights |-> w.vw, tangent_weights |-> tw, face_weight |-> w.fw,
     edge_weights_dict |-> QuadTable(w.ew)]

InitPatch ==
    /\ pc = "patch"
    /\ \E vs \in PatchCorners, ns \in [1..4 -> Axes], tw \in [1..4 -> TangentInputs],
          w \in PatchWeights : p_args = PatchArgs(vs, ns, tw, w)
    /\ p_ret = NoRet
    /\ linked = TRUE
    /\ vertices = << >> /\ normals = << >> /\ edges_in = << >> /\ faces_s = << >>
    /\ degree_u = << >> /\ degree_v = << >>
    /\ vertex_weights = << >> /\ edge_weights = << >>
    /\ face_weights = << >> /\ tangent_weights = << >>
    /\ mesh_no = 0
    /\ edges = << >>
    /\ vert_planes = << >>
    /\ edge_weights_dict = << >>
    /\ e = 0
    /\ i = 0
    /\ surface_out = << >>
    /\ control_points_out = << >>
    /\ weights_out = << >>
    /\ log = << >>
    /\ sockets = [Surfaces |-> << >>, ControlPoints |-> << >>, Weights |-> << >>]
    /\ call = NoArgs

Build ==
    /\ pc = "patch"
    /\ p_ret' = make_surface(p_args)
    /\ pc' = "built"
    /\ UNCHANGED << inputs, faces_s, lists, mesh_no, edges, vert_planes,
                    edge_weights_dict, e, i, outs, log, sockets, call, p_args >>

NextPatch == Build

SpecPatch == InitPatch /\ [][NextPatch]_vars

-----------------------------------------------------------------------------
(* Claims about make_surface, checked under SpecPatch *)

\* the 4x4 grid: row and column of the slot at position s of the 16-entry list
Row(s) == (s - 1) \div 4
Col(s) == (s - 1) % 4
Near(x) == IF x <= 1 THEN 0 ELSE 3
Far(x) == 3 - Near(x)
\* local index of the corner at a corner of the grid: v0 v1 / v3 v2
CornerAt(r, c) == IF r = 0 THEN (IF c = 0 THEN 0 ELSE 1) ELSE (IF c = 0 THEN 3 ELSE 2)
IsCornerSlot(s) == Row(s) \in {0, 3} /\ Col(s) \in {0, 3}
IsInteriorSlot(s) == Row(s) \in {1, 2} /\ Col(s) \in {1, 2}
NearestCorner(s) == CornerAt(Near(Row(s)), Near(Col(s)))

\* C1: the control-point list returned by make_surface holds the four input corner
\* positions unchanged at slots 0, 3, 12, 15 (v0, v1, v3, v2), whatever the tangent
\* weights, face weight, planes and degrees.
C1_CornersPreserved ==
    pc = "built" =>
        /\ Len(p_ret.control_points) = 16
        /\ At(p_ret.control_points, 0) = At(p_args.vertices, 0)
        /\ At(p_ret.control_points, 3) = At(p_args.vertices, 1)
        /\ At(p_ret.control_points, 12) = At(p_args.vertices, 3)
        /\ At(p_ret.control_points, 15) = At(p_args.vertices, 2)

C1_Witness ==
    /\ pc = "built"
    /\ p_args.tangent_weights = << 3, 1, 1, 3 >>
    /\ At(p_args.vertices, 2) = << 6, 3, 3 >>
    /\ At(p_args.vertices, 3) = << 0, 6, -3 >>
    /\ At(p_args.planes, 2).a = 1
    /\ At(p_ret.control_points, 15) = << 6, 3, 3 >>
    /\ At(p_ret.control_points, 14) = << 6, 4, 1 >>

\* the unit square of the end-to-end scenario (coordinates in thirds), flat normals,
\* every weight 1, both degrees 3
UnitSquareScenario ==
    /\ p_args.vertices = << << 0, 0, 0 >>, << 3, 0, 0 >>, << 3, 3, 0 >>, << 0, 3, 0 >> >>
    /\ \A k \in 1..4 : << p_args.planes[k].a, p_args.planes[k].b, p_args.planes[k].c >> = AxisZ
    /\ p_args.vert_weights = << 1, 1, 1, 1 >>
    /\ \A k \in DOMAIN p_args.edge_weights_dict : p_args.edge_weights_dict[k] = 1
    /\ p_args.face_weight = 1
    /\ p_args.degree_u = 3 /\ p_args.degree_v = 3

FlatAndUniform ==
    /\ \A s \in 1..16 : p_ret.control_points[s][3] = 0
    /\ p_ret.weights = [s \in 1..16 |-> 1]

\* C5 as claimed: in the unit-square scenario with tangent weights 3.0 the control
\* point at row r, column c is (c/3, r/3, 0), in the z=0 plane, and all weights are 1.
C5_Original ==
    (pc = "built" /\ UnitSquareScenario /\ p_args.tangent_weights = << 3, 3, 3, 3 >>) =>
        /\ FlatAndUniform
        /\ \A s \in 1..16 : p_ret.control_points[s] = << Col(s), Row(s), 0 >>

\* C5 as amended: in the unit-square scenario the 16 control points lie in the z=0
\* plane and the 16 weights are 1; with tangent weights 3.0 (influence 1.0) every edge
\* and face point lands on a corner of the square, row r column c being
\* (c mod 2, r mod 2, 0); the evenly spaced grid (c/3, r/3, 0) is what tangent
\* weights 1.0 (influence 1/3) give.
C5_UnitSquare ==
    (pc = "built" /\ UnitSquareScenario) =>
        /\ (p_args.tangent_weights \in { << 3, 3, 3, 3 >>, << 1, 1, 1, 1 >> } => FlatAndUniform)
        /\ p_args.tangent_weights = << 3, 3, 3, 3 >> =>
              \A s \in 1..16 :
                 p_ret.control_points[s] = << 3 * (Col(s) % 2), 3 * (Row(s) % 2), 0 >>
        /\ p_args.tangent_weights = << 1, 1, 1, 1 >> =>
              \A s \in 1..16 : p_ret.control_points[s] = << Col(s), Row(s), 0 >>

C5_Witness ==
    /\ pc = "built" /\ UnitSquareScenario
    /\ p_args.tangent_weights = << 3, 3, 3, 3 >>
    /\ At(p_ret.control_points, 1) = << 3, 0, 0 >>
    /\ At(p_ret.control_points, 5) = << 3, 3, 0 >>

\* the edge point of a boundary slot, from the grid alone: generated from the corner
\* next to the slot toward the other corner of the same side, on the first one's plane
SideSlotPoint(a, s) ==
    LET tw == [k \in 1..4 |-> [num |-> a.tangent_weights[k], den |-> TangentDivisor]]
        onRow == Row(s) \in {0, 3}
        from == IF onRow THEN CornerAt(Row(s), Near(Col(s))) ELSE CornerAt(Near(Row(s)), Col(s))
        to == IF onRow THEN CornerAt(Row(s), Far(Col(s))) ELSE CornerAt(Far(Row(s)), Col(s))
    IN  projection_of_point(At(a.planes, from),
            VAdd(At(a.vertices, from),
                 VMulQ(VSub(At(a.vertices, to), At(a.vertices, from)), At(tw, from))))

\* the face point of an interior slot: its nearest corner and that corner's two
\* neighbours along the quad
InteriorSlotPoint(a, s) ==
    LET tw == [k \in 1..4 |-> [num |-> a.tangent_weights[k], den |-> TangentDivisor]]
        c0 == NearestCorner(s)
        n1 == (c0 + 1) % 4
        n2 == (c0 + 3) % 4
        d1 == VMulQ(VSub(At(a.vertices, n1), At(a.vertices, c0)), At(tw, c0))
        d2 == VMulQ(VSub(At(a.vertices, n2), At(a.vertices, c0)), At(tw, c0))
    IN  projection_of_point(At(a.planes, c0),
            VAdd(At(a.vertices, c0), VMul(VAdd(d1, d2), a.face_weight)))

\* C7: on each side of the control grid the slot next to corner a holds the edge point
\* generated from a toward the side's other corner b, projected on a's plane, and each
\* interior slot holds the face point of its nearest corner built from that corner's
\* two quad-neighbours.
C7_Adjacency ==
    pc = "built" =>
        \A s \in 1..16 :
            /\ (~IsCornerSlot(s) /\ ~IsInteriorSlot(s)) =>
                  p_ret.control_points[s] = SideSlotPoint(p_args, s)
            /\ IsInteriorSlot(s) => p_ret.control_points[s] = InteriorSlotPoint(p_args, s)

C7_Witness ==
    /\ pc = "built"
    /\ p_args.tangent_weights = << 1, 3, 1, 0 >>
    /\ At(p_args.vertices, 2) = << 6, 3, 3 >>
    /\ At(p_args.planes, 0).c = 1 /\ At(p_args.planes, 1).a = 1
    /\ At(p_ret.control_points, 1) = << 1, 0, 0 >>
    /\ At(p_ret.control_points, 2) = << 3, 0, 0 >>
    /\ At(p_ret.control_points, 7) # At(p_ret.control_points, 11)

\* C8: with all four tangent weights 0, whatever the face weight and the normals, each
\* of the 8 edge points and of the 4 face points is the position of its own corner, so
\* the 16 control points take only the corner positions as values.
C8_ZeroTangent ==
    (pc = "built" /\ p_args.tangent_weights = << 0, 0, 0, 0 >>) =>
        \A s \in 1..16 : p_ret.control_points[s] = At(p_args.vertices, NearestCorner(s))

C8_Witness ==
    /\ pc = "built"
    /\ p_args.tangent_weights = << 0, 0, 0, 0 >>
    /\ p_args.face_weight = 2
    /\ At(p_args.planes, 0).a = 1 /\ At(p_args.planes, 2).b = 1
    /\ At(p_args.vertices, 2) = << 6, 3, 3 >>
    /\ At(p_ret.control_points, 10) = << 6, 3, 3 >>
    /\ At(p_ret.control_points, 1) = << 0, 0, 0 >>

-----------------------------------------------------------------------------
(* Claims about process, checked under Spec *)

IsQuad(face) == Len(face) = 4

\* the loop over the faces of mesh mesh_no has handled the Python indices below Handled
InMesh == mesh_no >= 1 /\ pc \in {"edges", "faces", "fault", "mesh", "done"}
Handled == IF pc = "edges" THEN 0 ELSE i

\* Python indices below n of the quads of a face list, in order
QuadIndices(fs, n) ==
    SelectSeq([k \in 1..n |-> k - 1], LAMBDA k : IsQuad(At(fs, k)))
OtherIndices(fs, n) ==
    SelectSeq([k \in 1..n |-> k - 1], LAMBDA k : ~IsQuad(At(fs, k)))

\* position in the output lists of the quad at index k of the current mesh
CurOut(k) ==
    Len(weights_out) - Len(QuadIndices(faces, Handled)) + Len(QuadIndices(faces, k)) + 1

\* the slots of the weight grid that belong to each looked-up side, in lookup order
SideSlots == << {1, 2}, {4, 8}, {7, 11}, {13, 14} >>

\* C2: the weight list of a quad holds the vertex weights of v0, v1, v3, v2 at slots
\* 0, 3, 12, 15, on each side (v0-v1: 1,2; v0-v3: 4,8; v1-v2: 7,11; v3-v2: 13,14) the
\* table's weight for the side's two global vertex indices in both slots, and
\* face_weight at the four interior slots 5, 6, 9, 10.
C2_WeightGrid ==
    [][ Len(weights_out') = Len(weights_out) + 1 =>
          LET w == weights_out'[Len(weights_out')]
              f == At(faces, i)
              d == edge_weights_dict
              side(a, b, slots) ==
                  /\ << At(f, a), At(f, b) >> \in DOMAIN d
                  /\ \A x \in slots : At(w, x) = d[<< At(f, a), At(f, b) >>]
          IN  /\ Len(w) = 16
              /\ At(w, 0) = At(vertex_weights, At(f, 0))
              /\ At(w, 3) = At(vertex_weights, At(f, 1))
              /\ At(w, 12) = At(vertex_weights, At(f, 3))
              /\ At(w, 15) = At(vertex_weights, At(f, 2))
              /\ side(0, 1, {1, 2})
              /\ side(0, 3, {4, 8})
              /\ side(1, 2, {7, 11})
              /\ side(3, 2, {13, 14})
              /\ \A x \in {5, 6, 9, 10} : At(w, x) = At(face_weights, i) ]_vars

C2_Witness ==
    /\ pc = "faces" /\ mesh_no = 1 /\ i = 1
    /\ edges_in = << >>
    /\ At(faces, 0) = Q1
    /\ weights_out = << << 1, 11, 11, 2, 14, 1, 1, 12, 14, 1, 1, 12, 4, 13, 13, 5 >> >>

TableSymmetric ==
    \A k \in DOMAIN edge_weights_dict :
        /\ << k[2], k[1] >> \in DOMAIN edge_weights_dict
        /\ edge_weights_dict[<< k[2], k[1] >>] = edge_weights_dict[k]

\* C3: the edge-weight table is symmetric after every insertion, also when an edge is
\* listed twice with different weights; and two quads of one mesh that share an edge,
\* in whatever direction each walks it, carry the same weight in the slots of that side.
C3_Symmetric ==
    /\ TableSymmetric
    /\ (InMesh /\ pc # "edges") =>
          \A ka, kb \in { k \in 0..(Handled - 1) : IsQuad(At(faces, k)) } :
             \A sa, sb \in 1..4 :
                SortedPair(EdgeKeys(At(faces, ka))[sa]) = SortedPair(EdgeKeys(At(faces, kb))[sb])
                => \A x \in SideSlots[sa], y \in SideSlots[sb] :
                      At(weights_out[CurOut(ka)], x) = At(weights_out[CurOut(kb)], y)

C3_Witness ==
    /\ pc = "faces" /\ mesh_no = 1 /\ i = 2
    /\ faces = << Q1, Q2 >>
    /\ edges_in = EdgesAll
    /\ edge_weights_dict[<< 1, 4 >>] = 18 /\ edge_weights_dict[<< 4, 1 >>] = 18
    /\ At(weights_out[1], 7) = 18 /\ At(weights_out[1], 11) = 18
    /\ At(weights_out[2], 1) = 18 /\ At(weights_out[2], 2) = 18

\* the table of a mesh, from its edge list alone: the weight of a key is the weight
\* paired with the last edge that joins the key's two vertices
MeshTable(es, ew) ==
    LET n == Min2(Len(es), Len(ew))
        joins(x, k) == es[x] = k \/ es[x] = << k[2], k[1] >>
        keys == { es[x] : x \in 1..n } \cup { << es[x][2], es[x][1] >> : x \in 1..n }
        last(k) == CHOOSE x \in 1..n : joins(x, k) /\ \A y \in (x + 1)..n : ~joins(y, k)
    IN  [k \in keys |-> ew[last(k)]]

\* the patch of the face at index k of face list fs, from the k-th degree and face
\* weight entries and the weights and planes of the face's own vertices
ExpectedPatch(fs, k) ==
    LET f == At(fs, k)
    IN  make_surface(
          [face |-> f,
           degree_u |-> At(degree_u, k),
           degree_v |-> At(degree_v, k),
           vertices |-> [x \in 1..4 |-> At(vertices, f[x])],
           planes |-> [x \in 1..4 |->
                         from_normal_and_point(At(normals, f[x]), At(vertices, f[x]))],
           vert_weights |-> [x \in 1..4 |-> At(vertex_weights, f[x])],
           tangent_weights |-> [x \in 1..4 |-> At(tangent_weights, f[x])],
           face_weight |-> At(face_weights, k),
           edge_weights_dict |-> MeshTable(MeshEdges(edges_in, fs), edge_weights)])

\* the patches of the first n faces of fs, one per quad, in face-list order
ExpectedOfMesh(fs, n) ==
    LET q == QuadIndices(fs, n) IN [x \in 1..Len(q) |-> ExpectedPatch(fs, q[x])]

RECURSIVE ExpectedBefore(_)
ExpectedBefore(m) ==
    IF m = 0 THEN << >>
    ELSE ExpectedBefore(m - 1) \o ExpectedOfMesh(faces_s[m], Len(faces_s[m]))

RECURSIVE DiagnosticsBefore(_)
DiagnosticsBefore(m) ==
    IF m = 0 THEN << >>
    ELSE DiagnosticsBefore(m - 1) \o OtherIndices(faces_s[m], Len(faces_s[m]))

RECURSIVE QuadsBefore(_)
QuadsBefore(m) ==
    IF m = 0 THEN 0
    ELSE QuadsBefore(m - 1) + Len(QuadIndices(faces_s[m], Len(faces_s[m])))

\* number of quads handled so far, over the meshes of the batch
QuadsSoFar ==
    IF InMesh
    THEN QuadsBefore(mesh_no - 1) + Len(QuadIndices(faces, Handled))
    ELSE 0

DiagnosticsSoFar ==
    IF InMesh
    THEN DiagnosticsBefore(mesh_no - 1) \o OtherIndices(faces, Handled)
    ELSE << >>

\* C4: the three output sequences have equal length and hold one entry per 4-vertex
\* face, in face-list order; a face that is no quad adds no entry, records one
\* diagnostic naming its index and does not abort the batch; the patch of the quad at
\* position k is built from the k-th degree_u, degree_v and face_weight entries and
\* its own vertices' weights and planes, however many non-quads precede it.
C4_NonQuadSkip ==
    /\ Len(surface_out) = QuadsSoFar
    /\ Len(control_points_out) = QuadsSoFar
    /\ Len(weights_out) = QuadsSoFar
    /\ log = DiagnosticsSoFar
    /\ pc = "fault" => IsQuad(At(faces, i))
    /\ pc = "done" =>
          LET expected == ExpectedBefore(Len(faces_s))
              n == Len(expected)
          IN  /\ mesh_no = Len(faces_s) /\ i = Len(faces)
              /\ sockets.Surfaces = << [x \in 1..n |-> expected[x].surface] >>
              /\ sockets.ControlPoints = << [x \in 1..n |-> expected[x].control_points] >>
              /\ sockets.Weights = << [x \in 1..n |-> expected[x].weights] >>

C4_Witness ==
    /\ pc = "done"
    /\ faces_s = << << Tri, Q1 >>, << Pent, Q1 >> >>
    /\ edges_in = << >>
    /\ log = << 0, 0 >>
    /\ Len(sockets.ControlPoints[1]) = 2
    /\ Len(sockets.Weights[1]) = 2
    /\ sockets.Surfaces[1][1].degree_u = 2
    /\ At(sockets.Weights[1][1], 5) = 2

AllSidesInTable ==
    \A k \in 0..(Len(faces) - 1) :
        IsQuad(At(faces, k)) =>
            LET f == At(faces, k)
            IN  { << At(f, 0), At(f, 1) >>, << At(f, 0), At(f, 3) >>,
                  << At(f, 1), At(f, 2) >>, << At(f, 2), At(f, 3) >> }
                    \subseteq DOMAIN edge_weights_dict

\* C6 as claimed: after the pre-pass every side (f0,f1), (f0,f3), (f1,f2), (f2,f3) of
\* every 4-vertex face is a key of the table, whether the edge list is absent or
\* supplied by the caller.
C6_Original == pc = "faces" => AllSidesInTable

\* C6 as amended: after the pre-pass every side of every 4-vertex face is a key of the
\* table when the edge list is absent (the edges are derived from the faces); an edge
\* list supplied by the caller is used as it is and need not hold every side.
C6_DerivedEdgesCover == (pc = "faces" /\ edges_in = << >>) => AllSidesInTable

C6_Witness ==
    /\ pc = "faces" /\ mesh_no = 1
    /\ edges_in = << >>
    /\ faces = << Q1, Q2 >>
    /\ Cardinality(DOMAIN edge_weights_dict) = 14
    /\ << 0, 3 >> \in DOMAIN edge_weights_dict

AtQuad == pc = "faces" /\ i < ZipLen /\ IsQuad(At(faces, i))

\* C9: a make_surface call leaves the edge-weight table, the mesh's positions, planes
\* and weight lists, the lists it was handed and every list returned by an earlier
\* call unchanged; so each quad's control points and weights are those the call gives
\* on the data as it stands after any number of other calls.
C9_NoSideEffects ==
    /\ [][ AtQuad =>
             /\ edge_weights_dict' = edge_weights_dict
             /\ call' = FaceArgs(i)
             /\ UNCHANGED << vertices, normals, vert_planes, faces_s, lists >>
             /\ \A x \in 1..Len(weights_out) :
                   /\ x <= Len(weights_out') /\ x <= Len(control_points_out')
                   /\ x <= Len(surface_out')
                   /\ weights_out'[x] = weights_out[x]
                   /\ control_points_out'[x] = control_points_out[x]
                   /\ surface_out'[x] = surface_out[x] ]_vars
    /\ []( (InMesh /\ pc # "edges") =>
             \A k \in 0..(Handled - 1) :
                IsQuad(At(faces, k)) =>
                   /\ CurOut(k) \in 1..Len(weights_out)
                   /\ weights_out[CurOut(k)] = make_surface(FaceArgs(k)).weights
                   /\ control_points_out[CurOut(k)] = make_surface(FaceArgs(k)).control_points )

C9_Witness ==
    /\ pc = "faces" /\ mesh_no = 1 /\ i = 2
    /\ faces = << Q1, Q2 >>
    /\ Len(weights_out) = 2
    /\ call.face = Q2
    /\ call.tangent_weights = << 1, 1, 0, 2 >>
    /\ tangent_weights = << 3, 1, 0, 3, 1, 2 >>

\* C10: a quad with a side missing from the table makes process fail at that quad;
\* nothing runs after the fault, no later face or mesh is processed, and none of the
\* three outputs is set, not even with the patches collected before.
C10_FaultPropagates ==
    /\ [][ /\ (AtQuad /\ LookupFault(At(faces, i), edge_weights_dict)) =>
                /\ pc' = "fault"
                /\ UNCHANGED << outs, sockets, i, mesh_no, log >>
           /\ pc = "fault" => UNCHANGED vars ]_vars
    /\ []( pc = "fault" =>
             /\ sockets = [Surfaces |-> << >>, ControlPoints |-> << >>, Weights |-> << >>]
             /\ LookupFault(At(faces, i), edge_weights_dict) )

C10_Witness ==
    /\ pc = "fault"
    /\ faces_s = << << Q1, Q2 >>, << Q2 >> >>
    /\ mesh_no = 1 /\ i = 1
    /\ edges_in = EdgesQ1
    /\ Len(weights_out) = 1
    /\ sockets.Weights = << >>

====
